---------------------------- MODULE Spec2Model ----------------------------
(***************************************************************************)
(* Model of contracts/cw4-group/src/contract.rs (Team-Kujira/senate): a    *)
(* weighted member roster kept in a height-indexed store, with a bounded   *)
(* total, an admin and a list of hooks.                                    *)
(*                                                                         *)
(* The contract's storage is one record (the fields carry the names of the *)
(* storage items of crate::state).  Every handler is an operator from a    *)
(* storage record to the storage record it leaves behind when it returns,  *)
(* together with its result; the handler writes straight into deps.storage,*)
(* so what it wrote before a `?` returned an error is part of the storage   *)
(* it leaves.  The actions are the messages the host delivers: the host    *)
(* keeps the storage of a message that returned Ok and drops the storage   *)
(* of one that returned Err; `last` records the latest message, with the   *)
(* storage its handler left behind.                                        *)
(*                                                                         *)
(* MEMBERS is a cw_storage_plus::SnapshotMap and TOTAL a SnapshotItem, both*)
(* kept for every block: the first write to a key at a height stores the   *)
(* value the key had before it in the changelog, and a read at height h    *)
(* takes the first changelog entry at a height >= h, else the current      *)
(* value.                                                                  *)
(***************************************************************************)
EXTENDS Integers, Sequences, FiniteSets, TLC

\* ----------------------------------------------------------------- bounds
\* u64 is narrowed to WBits bits; heights run over 1..MaxHeight.
WBits == 2
MaxHeight == 3
MaxAdd == 2
MaxRemove == 1
MaxMsgs == 2

U64_MAX == 2^WBits - 1

\* Option::None of a u64, of a String / Addr, and "no changelog entry".
None == -1
NoneStr == "none"
NoEntry == -2

Valid == {"a", "b"}
INVALID == "!"
Strings == Valid \cup {INVALID}
Heights == 1..MaxHeight
QueryHeights == 0..(MaxHeight + 1)
Builds == {"wrapping", "checked"}

Member(a, w, i) == [addr |-> a, weight |-> w, identity |-> i]

MemberInputs ==
  { Member("a", 1, "i1"), Member("a", U64_MAX, "i2"),
    Member("b", 1, "i2"), Member(INVALID, 1, "i1") }

SeqsUpTo(S, n) == UNION { [1..k -> S] : k \in 0..n }

AddLists == SeqsUpTo(MemberInputs, MaxAdd)
RemoveLists == SeqsUpTo(Strings, MaxRemove)

BoundPairs == { <<0, U64_MAX>>, <<1, 1>> }

Min(S) == CHOOSE x \in S : \A y \in S : x <= y
Max(S) == CHOOSE x \in S : \A y \in S : y <= x

\* ---------------------------------------------------------------- storage
EmptyStorage ==
  [ MAX_WEIGHT  |-> None,
    MIN_WEIGHT  |-> None,
    ADMIN       |-> NoneStr,
    HOOKS       |-> << >>,
    MEMBERS     |-> [k \in Valid |-> None],
    MEMBERS_LOG |-> [k \in Valid |-> [h \in Heights |-> NoEntry]],
    IDS         |-> [k \in Valid |-> NoneStr],
    TOTAL       |-> None,
    TOTAL_LOG   |-> [h \in Heights |-> NoEntry],
    \* history (not read by any handler): the last value written per height
    WRITTEN     |-> [k \in Valid |-> [h \in Heights |-> NoEntry]],
    WRITTEN_TOTAL |-> [h \in Heights |-> NoEntry] ]

\* deps.api.addr_validate: INVALID is the one malformed string
addr_validate(str) == str # INVALID

\* SnapshotMap::write_change: keep the value before the first write at height h
MapWriteChange(s, k, h) ==
  IF s.MEMBERS_LOG[k][h] # NoEntry THEN s
  ELSE [s EXCEPT !.MEMBERS_LOG[k][h] = s.MEMBERS[k]]

\* SnapshotMap::save
MapSave(s, k, v, h) ==
  [MapWriteChange(s, k, h) EXCEPT !.MEMBERS[k] = v, !.WRITTEN[k][h] = v]

\* SnapshotMap::remove
MapRemove(s, k, h) ==
  [MapWriteChange(s, k, h) EXCEPT !.MEMBERS[k] = None, !.WRITTEN[k][h] = None]

\* SnapshotMap::may_load
MapMayLoad(s, k) == s.MEMBERS[k]

\* SnapshotMap::may_load_at_height
MapMayLoadAtHeight(s, k, h) ==
  LET hs == { x \in Heights : x >= h /\ s.MEMBERS_LOG[k][x] # NoEntry }
  IN  IF hs = {} THEN s.MEMBERS[k] ELSE s.MEMBERS_LOG[k][Min(hs)]

\* SnapshotItem::save
ItemSave(s, v, h) ==
  [s EXCEPT !.TOTAL_LOG[h] = IF @ # NoEntry THEN @ ELSE s.TOTAL,
            !.TOTAL = v,
            !.WRITTEN_TOTAL[h] = v]

\* SnapshotItem::may_load
ItemMayLoad(s) == s.TOTAL

\* SnapshotItem::may_load_at_height
ItemMayLoadAtHeight(s, h) ==
  LET hs == { x \in Heights : x >= h /\ s.TOTAL_LOG[x] # NoEntry }
  IN  IF hs = {} THEN s.TOTAL ELSE s.TOTAL_LOG[Min(hs)]

\* Option::unwrap_or_default
unwrap_or_default(o) == IF o = None THEN 0 ELSE o

\* MEMBERS.range(.., Order::Ascending): the live keys
LiveKeys(s) == { k \in Valid : s.MEMBERS[k] # None }

RECURSIVE SumOver(_, _)
SumOver(s, K) ==
  IF K = {} THEN 0
  ELSE LET k == CHOOSE x \in K : TRUE
       IN  s.MEMBERS[k] + SumOver(s, K \ {k})

\* the mathematical sum of the live weights
LiveSum(s) == SumOver(s, LiveKeys(s))

\* assert_weights: the fold adds with `+` on u64, which wraps in a build
\* without overflow checks and panics in a build with them.
assert_weights(s, build) ==
  LET exact == LiveSum(s)
      total == exact % (U64_MAX + 1)
  IN  IF exact > U64_MAX /\ build = "checked" THEN "Panic"
      ELSE IF total > s.MAX_WEIGHT THEN "MaxWeightExceeded"
      ELSE IF total < s.MIN_WEIGHT THEN "MinWeightNotMet"
      ELSE "Ok"

\* Uint64::checked_add / Uint64::checked_sub: None when out of range
checked_add(a, b) == IF a + b > U64_MAX THEN None ELSE a + b
checked_sub(a, b) == IF b > a THEN None ELSE a - b

\* what a handler returns: the storage it leaves, its result, the diff and
\* the hook messages of the response
Return(s, res, diffs, msgs) ==
  [s |-> s, res |-> res, diffs |-> diffs, msgs |-> msgs]

\* the running state of a handler's loop
Ctx(s, total, diffs, res) ==
  [s |-> s, total |-> total, diffs |-> diffs, res |-> res]

\* a diff entry with the old and the new weight in each other's place
MemberDiffSwapped(key, old, new) == [key |-> key, old |-> new, new |-> old]

\* MemberDiff::new
MemberDiff(key, old, new) == [key |-> key, old |-> old, new |-> new]

\* ----------------------------------------------------------------- create
\* the loop of create saving the weight without the identity
CreateStepWithoutIdentity(c, member, height) ==
  LET total == checked_add(c.total, member.weight)
  IN  IF total = None THEN [c EXCEPT !.res = "Overflow"]
      ELSE IF ~addr_validate(member.addr)
           THEN [c EXCEPT !.total = total, !.res = "InvalidAddress"]
      ELSE [c EXCEPT
              !.total = total,
              !.s = MapSave(c.s, member.addr, member.weight, height)]

\* one turn of the loop of create (lines 61-67)
CreateStep(c, member, height) ==
  LET total == checked_add(c.total, member.weight)
  IN  IF total = None THEN [c EXCEPT !.res = "Overflow"]
      ELSE IF ~addr_validate(member.addr)
           THEN [c EXCEPT !.total = total, !.res = "InvalidAddress"]
      ELSE [c EXCEPT
              !.total = total,
              !.s = [MapSave(c.s, member.addr, member.weight, height)
                       EXCEPT !.IDS[member.addr] = member.identity]]

RECURSIVE CreateLoop(_, _, _, _)
CreateLoop(c, members, i, height) ==
  IF i > Len(members) \/ c.res # "Ok" THEN c
  ELSE CreateLoop(CreateStep(c, members[i], height), members, i + 1, height)

create(s, admin, members, min_weight, max_weight, height, build) ==
  LET s1 == [s EXCEPT !.MAX_WEIGHT = max_weight, !.MIN_WEIGHT = min_weight]
  IN  IF admin # NoneStr /\ ~addr_validate(admin)
      THEN Return(s1, "InvalidAddress", << >>, << >>)
      ELSE
        LET s2 == [s1 EXCEPT !.ADMIN = admin]
            c  == CreateLoop(Ctx(s2, 0, << >>, "Ok"), members, 1, height)
        IN  IF c.res # "Ok" THEN Return(c.s, c.res, << >>, << >>)
            ELSE LET s3 == ItemSave(c.s, c.total, height)
                 IN  Return(s3, assert_weights(s3, build), << >>, << >>)

\* --------------------------------------------------------- update_members
\* an admin check that lets everyone in when no admin is set
is_admin_open(s, sender) == s.ADMIN = NoneStr \/ s.ADMIN = sender

\* Admin::assert_admin / Admin::is_admin
is_admin(s, sender) == s.ADMIN # NoneStr /\ s.ADMIN = sender

\* the add loop writing every change at height 1
AddStepAtFirstHeight(c, add, height) ==
  IF ~addr_validate(add.addr) THEN [c EXCEPT !.res = "InvalidAddress"]
  ELSE
    LET s1  == [c.s EXCEPT !.IDS[add.addr] = add.identity]
        old == MapMayLoad(s1, add.addr)
        t1  == checked_sub(c.total, unwrap_or_default(old))
        t2  == IF t1 = None THEN None ELSE checked_add(t1, add.weight)
    IN  IF t2 = None THEN [c EXCEPT !.s = s1, !.res = "Overflow"]
        ELSE [c EXCEPT
                !.s = MapSave(s1, add.addr, add.weight, 1),
                !.total = t2,
                !.diffs = Append(@, MemberDiff(add.addr, old, add.weight))]

\* the add loop saving the identity for every address
AddStepIdentityForAll(c, add, height) ==
  IF ~addr_validate(add.addr) THEN [c EXCEPT !.res = "InvalidAddress"]
  ELSE
    LET s1  == [c.s EXCEPT !.IDS = [k \in DOMAIN @ |-> add.identity]]
        old == MapMayLoad(s1, add.addr)
        t1  == checked_sub(c.total, unwrap_or_default(old))
        t2  == IF t1 = None THEN None ELSE checked_add(t1, add.weight)
    IN  IF t2 = None THEN [c EXCEPT !.s = s1, !.res = "Overflow"]
        ELSE [c EXCEPT
                !.s = MapSave(s1, add.addr, add.weight, height),
                !.total = t2,
                !.diffs = Append(@, MemberDiff(add.addr, old, add.weight))]

\* one turn of the add loop (lines 140-149)
AddStep(c, add, height) ==
  IF ~addr_validate(add.addr) THEN [c EXCEPT !.res = "InvalidAddress"]
  ELSE
    LET s1  == [c.s EXCEPT !.IDS[add.addr] = add.identity]
        old == MapMayLoad(s1, add.addr)
        t1  == checked_sub(c.total, unwrap_or_default(old))
        t2  == IF t1 = None THEN None ELSE checked_add(t1, add.weight)
    IN  IF t2 = None THEN [c EXCEPT !.s = s1, !.res = "Overflow"]
        ELSE [c EXCEPT
                !.s = MapSave(s1, add.addr, add.weight, height),
                !.total = t2,
                !.diffs = Append(@, MemberDiff(add.addr, old, add.weight))]

RECURSIVE AddLoop(_, _, _, _)
AddLoop(c, to_add, i, height) ==
  IF i > Len(to_add) \/ c.res # "Ok" THEN c
  ELSE AddLoop(AddStep(c, to_add[i], height), to_add, i + 1, height)

\* the remove loop without the test for a current weight
RemoveStepUnconditional(c, remove, height) ==
  IF ~addr_validate(remove) THEN [c EXCEPT !.res = "InvalidAddress"]
  ELSE
    LET old == MapMayLoad(c.s, remove)
        t   == checked_sub(c.total, unwrap_or_default(old))
        d   == Append(c.diffs, MemberDiff(remove, old, None))
    IN  IF t = None THEN [c EXCEPT !.diffs = d, !.res = "Overflow"]
        ELSE [c EXCEPT !.diffs = d,
                       !.total = t,
                       !.s = MapRemove(c.s, remove, height)]

\* the remove loop erasing the identity with the weight
RemoveStepClearingIdentity(c, remove, height) ==
  IF ~addr_validate(remove) THEN [c EXCEPT !.res = "InvalidAddress"]
  ELSE
    LET old == MapMayLoad(c.s, remove)
    IN  IF old = None THEN c
        ELSE LET t == checked_sub(c.total, old)
                 d == Append(c.diffs, MemberDiff(remove, old, None))
             IN  IF t = None THEN [c EXCEPT !.diffs = d, !.res = "Overflow"]
                 ELSE [c EXCEPT !.diffs = d,
                                !.total = t,
                                !.s = [MapRemove(c.s, remove, height)
                                         EXCEPT !.IDS[remove] = NoneStr]]

\* one turn of the remove loop (lines 151-160)
RemoveStep(c, remove, height) ==
  IF ~addr_validate(remove) THEN [c EXCEPT !.res = "InvalidAddress"]
  ELSE
    LET old == MapMayLoad(c.s, remove)
    IN  IF old = None THEN c
        ELSE LET t == checked_sub(c.total, old)
                 d == Append(c.diffs, MemberDiff(remove, old, None))
             IN  IF t = None THEN [c EXCEPT !.diffs = d, !.res = "Overflow"]
                 ELSE [c EXCEPT !.diffs = d,
                                !.total = t,
                                !.s = MapRemove(c.s, remove, height)]

RECURSIVE RemoveLoop(_, _, _, _)
RemoveLoop(c, to_remove, i, height) ==
  IF i > Len(to_remove) \/ c.res # "Ok" THEN c
  ELSE RemoveLoop(RemoveStep(c, to_remove[i], height), to_remove, i + 1, height)

\* the greatest height at which the total was saved (0 when never)
GreatestRecorded(s) ==
  Max({0} \cup { h \in Heights : s.TOTAL_LOG[h] # NoEntry })

\* update_members refusing a height below the greatest recorded one
update_members_ordered(s, height, sender, to_add, to_remove, build) ==
  IF ~is_admin(s, sender) THEN Return(s, "NotAdmin", << >>, << >>)
  ELSE IF height < GreatestRecorded(s)
       THEN Return(s, "OrderingViolation", << >>, << >>)
  ELSE
    LET c1 == AddLoop(Ctx(s, s.TOTAL, << >>, "Ok"), to_add, 1, height)
        c2 == RemoveLoop(c1, to_remove, 1, height)
    IN  IF c2.res # "Ok" THEN Return(c2.s, c2.res, << >>, << >>)
        ELSE LET s3 == ItemSave(c2.s, c2.total, height)
                 aw == assert_weights(s3, build)
             IN  Return(s3, aw, IF aw = "Ok" THEN c2.diffs ELSE << >>, << >>)

\* update_members running its remove loop before its add loop
update_members_removes_first(s, height, sender, to_add, to_remove, build) ==
  IF ~is_admin(s, sender) THEN Return(s, "NotAdmin", << >>, << >>)
  ELSE
    LET c1 == RemoveLoop(Ctx(s, s.TOTAL, << >>, "Ok"), to_remove, 1, height)
        c2 == AddLoop(c1, to_add, 1, height)
    IN  IF c2.res # "Ok" THEN Return(c2.s, c2.res, << >>, << >>)
        ELSE LET s3 == ItemSave(c2.s, c2.total, height)
                 aw == assert_weights(s3, build)
             IN  Return(s3, aw, IF aw = "Ok" THEN c2.diffs ELSE << >>, << >>)

update_members(s, height, sender, to_add, to_remove, build) ==
  IF ~is_admin(s, sender) THEN Return(s, "NotAdmin", << >>, << >>)
  ELSE
    LET c1 == AddLoop(Ctx(s, s.TOTAL, << >>, "Ok"), to_add, 1, height)
        c2 == RemoveLoop(c1, to_remove, 1, height)
    IN  IF c2.res # "Ok" THEN Return(c2.s, c2.res, << >>, << >>)
        ELSE LET s3 == ItemSave(c2.s, c2.total, height)
                 aw == assert_weights(s3, build)
             IN  Return(s3, aw, IF aw = "Ok" THEN c2.diffs ELSE << >>, << >>)

\* hook messages made one per hook and diff entry, each with that entry alone
prepare_hooks_per_entry(s, diffs) ==
  [ n \in 1..(Len(s.HOOKS) * Len(diffs)) |->
      [ contract_addr |-> s.HOOKS[((n - 1) \div Len(diffs)) + 1],
        diffs |-> << diffs[((n - 1) % Len(diffs)) + 1] >> ] ]

\* Hooks::prepare_hooks with MemberChangedHookMsg::into_cosmos_msg
prepare_hooks(s, diffs) ==
  [i \in 1..Len(s.HOOKS) |-> [contract_addr |-> s.HOOKS[i], diffs |-> diffs]]

execute_update_members(s, height, sender, add, remove, build) ==
  LET r == update_members(s, height, sender, add, remove, build)
  IN  IF r.res # "Ok" THEN r
      ELSE LET messages == prepare_hooks(r.s, r.diffs)
               aw       == assert_weights(r.s, build)
           IN  IF aw # "Ok" THEN Return(r.s, aw, << >>, << >>)
               ELSE [r EXCEPT !.msgs = messages]

\* ------------------------------------------------- admin and hook messages
\* UpdateAdmin without the check of the sender
execute_update_admin_unchecked(s, sender, admin) ==
  IF admin # NoneStr /\ ~addr_validate(admin)
  THEN Return(s, "InvalidAddress", << >>, << >>)
  ELSE Return([s EXCEPT !.ADMIN = admin], "Ok", << >>, << >>)

\* ExecuteMsg::UpdateAdmin: the new admin is validated, then
\* Admin::execute_update_admin
execute_update_admin(s, sender, admin) ==
  IF admin # NoneStr /\ ~addr_validate(admin)
  THEN Return(s, "InvalidAddress", << >>, << >>)
  ELSE IF ~is_admin(s, sender) THEN Return(s, "NotAdmin", << >>, << >>)
  ELSE Return([s EXCEPT !.ADMIN = admin], "Ok", << >>, << >>)

InSeq(x, q) == \E i \in 1..Len(q) : q[i] = x

\* AddHook without the test for a registered address
execute_add_hook_unchecked(s, sender, addr) ==
  IF ~addr_validate(addr) THEN Return(s, "InvalidAddress", << >>, << >>)
  ELSE IF ~is_admin(s, sender) THEN Return(s, "NotAdmin", << >>, << >>)
  ELSE Return([s EXCEPT !.HOOKS = Append(@, addr)], "Ok", << >>, << >>)

\* ExecuteMsg::AddHook: the address is validated, then Hooks::execute_add_hook
execute_add_hook(s, sender, addr) ==
  IF ~addr_validate(addr) THEN Return(s, "InvalidAddress", << >>, << >>)
  ELSE IF ~is_admin(s, sender) THEN Return(s, "NotAdmin", << >>, << >>)
  ELSE IF InSeq(addr, s.HOOKS)
       THEN Return(s, "HookAlreadyRegistered", << >>, << >>)
  ELSE Return([s EXCEPT !.HOOKS = Append(@, addr)], "Ok", << >>, << >>)

\* ExecuteMsg::RemoveHook: the address is validated, then
\* Hooks::execute_remove_hook
execute_remove_hook(s, sender, addr) ==
  IF ~addr_validate(addr) THEN Return(s, "InvalidAddress", << >>, << >>)
  ELSE IF ~is_admin(s, sender) THEN Return(s, "NotAdmin", << >>, << >>)
  ELSE IF ~InSeq(addr, s.HOOKS)
       THEN Return(s, "HookNotRegistered", << >>, << >>)
  ELSE LET p == Min({ i \in 1..Len(s.HOOKS) : s.HOOKS[i] = addr })
       IN  Return([s EXCEPT !.HOOKS =
                     SubSeq(@, 1, p - 1) \o SubSeq(@, p + 1, Len(@))],
                  "Ok", << >>, << >>)

\* ---------------------------------------------------------------- queries
query_total_weight(s, height) ==
  unwrap_or_default(IF height = None THEN ItemMayLoad(s)
                    ELSE ItemMayLoadAtHeight(s, height))

\* query_member that reads the current weight whatever the height
query_member_current(s, addr, height) ==
  LET res == MapMayLoad(s, addr)
  IN  IF res # None THEN [weight |-> res, identity |-> s.IDS[addr]]
      ELSE [weight |-> None, identity |-> NoneStr]

query_member(s, addr, height) ==
  LET res == IF height = None THEN MapMayLoad(s, addr)
             ELSE MapMayLoadAtHeight(s, addr, height)
  IN  IF res # None THEN [weight |-> res, identity |-> s.IDS[addr]]
      ELSE [weight |-> None, identity |-> NoneStr]

\* settings for pagination (lines 213-214)
MAX_LIMIT == 30
DEFAULT_LIMIT == 10

\* Addresses in the order of their bytes, the order of the keys of MEMBERS:
\* those of Valid, then the addresses of the rosters that fill a page.
AddrOrder ==
  << "a", "b", "m01", "m02", "m03", "m04", "m05", "m06",
     "m07", "m08", "m09", "m10", "m11", "m12", "m13", "m14",
     "m15", "m16", "m17", "m18", "m19", "m20", "m21", "m22",
     "m23", "m24", "m25", "m26", "m27", "m28", "m29", "m30",
     "m31", "m32" >>

AddrRank(k) == CHOOSE i \in 1..Len(AddrOrder) : AddrOrder[i] = k

\* query_list_members with an inclusive start
query_list_members_inclusive(s, start_after, limit) ==
  LET lim == IF limit = None THEN DEFAULT_LIMIT
             ELSE IF limit < MAX_LIMIT THEN limit ELSE MAX_LIMIT
  IN  IF start_after # NoneStr /\ ~addr_validate(start_after)
      THEN [res |-> "InvalidAddress", members |-> << >>]
      ELSE
        LET InRange(k) ==
              /\ k \in DOMAIN s.MEMBERS /\ s.MEMBERS[k] # None
              /\ start_after = NoneStr \/ AddrRank(k) >= AddrRank(start_after)
            range == SelectSeq(AddrOrder, InRange)
            taken == SubSeq(range, 1, IF Len(range) < lim THEN Len(range) ELSE lim)
        IN  IF \E i \in 1..Len(taken) : s.IDS[taken[i]] = NoneStr
            THEN [res |-> "Panic", members |-> << >>]
            ELSE [res |-> "Ok",
                  members |-> [i \in 1..Len(taken) |->
                    Member(taken[i], s.MEMBERS[taken[i]], s.IDS[taken[i]])]]

\* query_list_members (lines 216-239): maybe_addr validates start_after,
\* MEMBERS.range runs over the current weights above it in ascending key
\* order, take(limit) cuts it, and IDS.load(..).unwrap() panics on a member
\* without identity.
query_list_members(s, start_after, limit) ==
  LET lim == IF limit = None THEN DEFAULT_LIMIT
             ELSE IF limit < MAX_LIMIT THEN limit ELSE MAX_LIMIT
  IN  IF start_after # NoneStr /\ ~addr_validate(start_after)
      THEN [res |-> "InvalidAddress", members |-> << >>]
      ELSE
        LET InRange(k) ==
              /\ k \in DOMAIN s.MEMBERS /\ s.MEMBERS[k] # None
              /\ start_after = NoneStr \/ AddrRank(k) > AddrRank(start_after)
            range == SelectSeq(AddrOrder, InRange)
            taken == SubSeq(range, 1, IF Len(range) < lim THEN Len(range) ELSE lim)
        IN  IF \E i \in 1..Len(taken) : s.IDS[taken[i]] = NoneStr
            THEN [res |-> "Panic", members |-> << >>]
            ELSE [res |-> "Ok",
                  members |-> [i \in 1..Len(taken) |->
                    Member(taken[i], s.MEMBERS[taken[i]], s.IDS[taken[i]])]]

\* ---------------------------------------------------------- state machine
VARIABLES
  store,    \* the contract's committed storage
  phase,    \* "new" before instantiate, then "live", or "failed" when
            \* instantiate returned an error and no contract exists
  height,   \* env.block.height of the latest message
  build,    \* whether the build checks `+` for overflow
  count,    \* the number of execute messages delivered so far
  last      \* the latest message: its sender and address argument, its
            \* result and response, and the storage its handler left

vars == << store, phase, height, build, count, last >>

Call(op, sender, addr, r) ==
  [ op |-> op, sender |-> sender, addr |-> addr, res |-> r.res,
    post |-> r.s, diffs |-> r.diffs, msgs |-> r.msgs ]

\* the host keeps the writes of a message that returned Ok, and no others
Commit(pre, r) == IF r.res = "Ok" THEN r.s ELSE pre

Init ==
  /\ store = EmptyStorage
  /\ phase = "new"
  /\ height = 1
  /\ build \in Builds
  /\ count = 0
  /\ last = Call("none", NoneStr, NoneStr, Return(EmptyStorage, "Ok", << >>, << >>))

\* instantiate (lines 24-40) at block height h
Instantiate(h) ==
  /\ phase = "new"
  /\ \E admin \in Strings \cup {NoneStr}, members \in AddLists, b \in BoundPairs :
       LET r == create(EmptyStorage, admin, members, b[1], b[2], h, build)
       IN  /\ store' = Commit(store, r)
           /\ phase' = IF r.res = "Ok" THEN "live" ELSE "failed"
           /\ last' = Call("instantiate", NoneStr, admin, r)
  /\ height' = h
  /\ UNCHANGED << build, count >>

\* The lists that UpdateMembers tries for a sender.  update_members returns
\* NotAdmin before it reads its lists when the sender is not the admin, so
\* one pair of lists stands for all of them there.
UpdateAddLists(sender) ==
  IF is_admin(store, sender) THEN AddLists ELSE { << >> }

UpdateRemoveLists(sender) ==
  IF is_admin(store, sender) THEN RemoveLists ELSE { << >> }

\* execute, ExecuteMsg::UpdateMembers at block height h
UpdateMembers(h) ==
  /\ phase = "live"
  /\ count < MaxMsgs
  /\ \E sender \in Valid :
       \E add \in UpdateAddLists(sender), remove \in UpdateRemoveLists(sender) :
         LET r == execute_update_members(store, h, sender, add, remove, build)
         IN  /\ store' = Commit(store, r)
             /\ last' = Call("update_members", sender, NoneStr, r)
  /\ height' = h
  /\ count' = count + 1
  /\ UNCHANGED << phase, build >>

\* execute, ExecuteMsg::UpdateAdmin
UpdateAdmin ==
  /\ phase = "live"
  /\ count < MaxMsgs
  /\ \E sender \in Valid, admin \in Strings \cup {NoneStr} :
       LET r == execute_update_admin(store, sender, admin)
       IN  /\ store' = Commit(store, r)
           /\ last' = Call("update_admin", sender, admin, r)
  /\ count' = count + 1
  /\ UNCHANGED << phase, height, build >>

\* execute, ExecuteMsg::AddHook
AddHook ==
  /\ phase = "live"
  /\ count < MaxMsgs
  /\ \E sender \in Valid, addr \in Strings :
       LET r == execute_add_hook(store, sender, addr)
       IN  /\ store' = Commit(store, r)
           /\ last' = Call("add_hook", sender, addr, r)
  /\ count' = count + 1
  /\ UNCHANGED << phase, height, build >>

\* execute, ExecuteMsg::RemoveHook
RemoveHook ==
  /\ phase = "live"
  /\ count < MaxMsgs
  /\ \E sender \in Valid, addr \in Strings :
       LET r == execute_remove_hook(store, sender, addr)
       IN  /\ store' = Commit(store, r)
           /\ last' = Call("remove_hook", sender, addr, r)
  /\ count' = count + 1
  /\ UNCHANGED << phase, height, build >>

\* the host's block height never decreases
Next ==
  \/ \E h \in height..MaxHeight : Instantiate(h)
  \/ \E h \in height..MaxHeight : UpdateMembers(h)
  \/ UpdateAdmin
  \/ AddHook
  \/ RemoveHook

Spec == Init /\ [][Next]_vars

\* create and update_members take the height from their caller and compare
\* it with nothing: the member updates of a caller that passes any height
NextAnyHeight ==
  \/ \E h \in Heights : Instantiate(h)
  \/ \E h \in Heights : UpdateMembers(h)

SpecAnyHeight == Init /\ [][NextAnyHeight]_vars

\* ------------------------------------------------ the listing of a roster
\* The storage of a group created at height 1 with the first n addresses of
\* AddrOrder, from which an update at height 2 has removed those of
\* `removed`.  The first address weighs 1 and the others 0, which keeps the
\* total within the narrowed u64.
ListKeys == { AddrOrder[i] : i \in 1..Len(AddrOrder) }

ListWeight(k) == IF k = AddrOrder[1] THEN 1 ELSE 0

ListStore(n, removed) ==
  LET ever == { AddrOrder[i] : i \in 1..n }
      gone == ever \cap removed
      live == ever \ gone
      sum(K) == IF AddrOrder[1] \in K THEN 1 ELSE 0
  IN  [ MAX_WEIGHT  |-> U64_MAX,
        MIN_WEIGHT  |-> 0,
        ADMIN       |-> AddrOrder[1],
        HOOKS       |-> << >>,
        MEMBERS     |-> [k \in ListKeys |->
                          IF k \in live THEN ListWeight(k) ELSE None],
        MEMBERS_LOG |-> [k \in ListKeys |-> [h \in Heights |->
                          IF h = 1 /\ k \in ever THEN None
                          ELSE IF h = 2 /\ k \in gone THEN ListWeight(k)
                          ELSE NoEntry]],
        IDS         |-> [k \in ListKeys |->
                          IF k \in ever THEN "i1" ELSE NoneStr],
        TOTAL       |-> sum(live),
        TOTAL_LOG   |-> [h \in Heights |->
                          IF h = 1 THEN None
                          ELSE IF h = 2 THEN sum(ever) ELSE NoEntry],
        WRITTEN     |-> [k \in ListKeys |-> [h \in Heights |->
                          IF h = 1 /\ k \in ever THEN ListWeight(k)
                          ELSE IF h = 2 /\ k \in gone THEN None
                          ELSE NoEntry]],
        WRITTEN_TOTAL |-> [h \in Heights |->
                          IF h = 1 THEN sum(ever)
                          ELSE IF h = 2 THEN sum(live) ELSE NoEntry] ]

ListRemoved == { {}, {"b"}, {"a", "m05"} }
ListStartAfter == { NoneStr, "a", "b", "m05", INVALID }
ListLimits == { None, 0, 1, 10, 11, 30, 31, 40 }

InitList ==
  /\ \E n \in 0..Len(AddrOrder), removed \in ListRemoved :
       store = ListStore(n, removed)
  /\ phase = "live"
  /\ height = 2
  /\ build = "checked"
  /\ count = 0
  /\ last = Call("none", NoneStr, NoneStr, Return(store, "Ok", << >>, << >>))

\* query, QueryMsg::ListMembers
ListMembers ==
  /\ \E start_after \in ListStartAfter, limit \in ListLimits :
       LET r == query_list_members(store, start_after, limit)
       IN  last' = [ op |-> "list_members", sender |-> NoneStr,
                     addr |-> start_after, limit |-> limit, res |-> r.res,
                     members |-> r.members, post |-> store,
                     diffs |-> << >>, msgs |-> << >> ]
  /\ UNCHANGED << store, phase, height, build, count >>

NextList == ListMembers

SpecList == InitList /\ [][NextList]_vars

\* ------------------------------------------------------------------ claims
\* the states from which the host delivers an execute message, and the
\* heights it may carry
CanCall == phase = "live" /\ count < MaxMsgs
CallHeights == height..MaxHeight

\* the stored data of a storage record: weights, their history, identities,
\* the total and its history
Data(s) ==
  << s.MEMBERS, s.MEMBERS_LOG, s.IDS, s.TOTAL, s.TOTAL_LOG >>

IsBoundError(res) == res \in {"MaxWeightExceeded", "MinWeightNotMet"}

\* C1: after every successful create and update_members the stored total,
\* as total_weight() reports it, is the sum of the weights of the live
\* members.
C1_TotalIsLiveSum ==
  phase = "live" => query_total_weight(store, None) = LiveSum(store)

\* C2: an update_members or execute_update_members that fails leaves every
\* weight, every history entry, every identity and the total as they were
\* before the call, and produces no hook message.  (After a failed message
\* `store` is the storage before the call.)
C2_FailedUpdateLeavesNoTrace ==
  (last.op = "update_members" /\ last.res # "Ok") =>
    /\ Data(last.post) = Data(store)
    /\ last.msgs = << >>

\* C3: in every state reached by successful create and update_members calls
\* total_weight() lies between min_weight and max_weight.
C3_TotalWithinBounds ==
  phase = "live" =>
    /\ store.MIN_WEIGHT <= query_total_weight(store, None)
    /\ query_total_weight(store, None) <= store.MAX_WEIGHT

\* C4: a create or update_members whose resulting live sum is above
\* max_weight fails with MaxWeightExceeded, one whose sum is below
\* min_weight fails with MinWeightNotMet, and in both cases nothing is
\* stored: the storage is as it was before the call.
C4_BoundErrorKind ==
  \* the handler ran up to the bound check
  (last.res \in {"Ok", "Panic"} \/ IsBoundError(last.res)) =>
    /\ LiveSum(last.post) > last.post.MAX_WEIGHT
         => last.res = "MaxWeightExceeded"
    /\ LiveSum(last.post) < last.post.MIN_WEIGHT
         => last.res = "MinWeightNotMet"

C4_BoundErrorStoresNothing ==
  IsBoundError(last.res) => last.post = store

C4_OutOfBoundsFailsAndStoresNothing ==
  last.op \in {"instantiate", "update_members"} =>
    C4_BoundErrorKind /\ C4_BoundErrorStoresNothing

\* the first half of C4 alone
C4_KindOnly ==
  last.op \in {"instantiate", "update_members"} => C4_BoundErrorKind

\* the value of the latest write to k at a height in H (None when there is
\* none, or when that write was a removal)
LatestWrite(s, k, H) ==
  LET hs == { h \in H : s.WRITTEN[k][h] # NoEntry }
  IN  IF hs = {} THEN None ELSE s.WRITTEN[k][Max(hs)]

SuccessfulUpdate == last'.op = "update_members" /\ last'.res = "Ok"

\* C6 (as stated): a successful update_members at height v2 changes neither
\* the result of query_member(addr, at_height = v1) nor that of
\* query_total_weight(at_height = v1), for any v1 < v2.
C6_ResultImmutable ==
  [][SuccessfulUpdate =>
       \A v1 \in QueryHeights : v1 < height' =>
         /\ \A k \in Valid :
              query_member(store', k, v1) = query_member(store, k, v1)
         /\ query_total_weight(store', v1) = query_total_weight(store, v1)
    ]_vars

\* C6 (amended): a successful update_members at height v2 changes neither
\* the weight that query_member(addr, at_height = v1) reports nor the result
\* of query_total_weight(at_height = v1), for any v1 < v2.
C6_WeightHistoryImmutable ==
  [][SuccessfulUpdate =>
       \A v1 \in QueryHeights : v1 < height' =>
         /\ \A k \in Valid :
              query_member(store', k, v1).weight
                = query_member(store, k, v1).weight
         /\ query_total_weight(store', v1) = query_total_weight(store, v1)
    ]_vars

\* an update at a later height has changed a member that an earlier height
\* still reports with its weight of then
C6_Witness ==
  /\ last.op = "update_members" /\ last.res = "Ok"
  /\ \E k \in Valid, v1 \in Heights :
       /\ v1 < height
       /\ store.WRITTEN[k][height] # NoEntry
       /\ query_member(store, k, v1).weight # None
       /\ query_member(store, k, v1).weight # query_member(store, k, None).weight

\* the current weights, identities and total
Current(s) == << s.MEMBERS, s.IDS, s.TOTAL >>

\* an entry of the total's history above the height of the latest message
RecordedAbove == \E g \in Heights : g > height /\ store.TOTAL_LOG[g] # NoEntry

Gated == {"update_members", "add_hook", "remove_hook", "update_admin"}

\* the messages of execute that validate an address before the admin check
ValidatesFirst == {"add_hook", "remove_hook", "update_admin"}

\* C8 (as stated): an admin-gated message succeeds only when its sender is
\* the admin stored at the moment of the call, and otherwise fails with
\* Unauthorized (NotAdmin) and changes nothing; the admin stored at that
\* moment is never refused as unauthorized.
C8_GatedByCurrentAdmin ==
  [][last'.op \in Gated =>
       /\ last'.res = "Ok" => last'.sender = store.ADMIN
       /\ last'.sender # store.ADMIN =>
            last'.res = "NotAdmin" /\ last'.post = store /\ store' = store
       /\ last'.sender = store.ADMIN => last'.res # "NotAdmin"
    ]_vars

\* C8 (amended): as C8, but AddHook, RemoveHook and UpdateAdmin validate
\* their address argument before the admin check, and a sender that is not
\* the admin gets the address error for an invalid address.
C8_GatedByCurrentAdminOrBadAddress ==
  [][last'.op \in Gated =>
       /\ last'.res = "Ok" => last'.sender = store.ADMIN
       /\ last'.sender # store.ADMIN =>
            /\ last'.post = store /\ store' = store
            /\ IF last'.op \in ValidatesFirst /\ last'.addr = INVALID
               THEN last'.res = "InvalidAddress"
               ELSE last'.res = "NotAdmin"
       /\ last'.sender = store.ADMIN => last'.res # "NotAdmin"
    ]_vars

\* the admin has handed over to another address
C8_Witness ==
  /\ last.op = "update_admin" /\ last.res = "Ok"
  /\ store.ADMIN \in Valid
  /\ last.sender # store.ADMIN
  /\ update_members(store, height, last.sender, << >>, << >>, build).res
       = "NotAdmin"

NoAdmin == phase = "live" /\ store.ADMIN = NoneStr

\* C9 (as stated): once the admin is absent it stays absent, every gated
\* message fails with Unauthorized (NotAdmin), and the storage never
\* changes again.
C9_NoAdminLocks ==
  [][NoAdmin =>
       /\ store' = store
       /\ last'.op \in Gated => last'.res = "NotAdmin" /\ last'.post = store
    ]_vars

\* C9 (amended): as C9, but AddHook, RemoveHook and UpdateAdmin with an
\* invalid address fail with the address error.
C9_NoAdminLocksOrBadAddress ==
  [][NoAdmin =>
       /\ store' = store
       /\ last'.op \in Gated =>
            /\ last'.post = store
            /\ IF last'.op \in ValidatesFirst /\ last'.addr = INVALID
               THEN last'.res = "InvalidAddress"
               ELSE last'.res = "NotAdmin"
    ]_vars

\* with no admin, a message of each kind has been refused
C9_Witness ==
  /\ NoAdmin
  /\ count = MaxMsgs
  /\ last.op = "update_members" /\ last.res = "NotAdmin"
  /\ LiveKeys(store) # {}

\* the removes that find a current weight when their turn comes, given the
\* keys live before the first of them
RECURSIVE Effective(_, _, _)
Effective(remove, i, live) ==
  IF i > Len(remove) THEN << >>
  ELSE IF remove[i] \in live
       THEN << remove[i] >> \o Effective(remove, i + 1, live \ {remove[i]})
       ELSE Effective(remove, i + 1, live)

\* C10: a remove of an address with no current weight succeeds, adds no
\* entry to the diff and leaves weights, their history and the total as
\* they are: the call does what it does without that element, and a call
\* of nothing but such removes changes no weight, no history entry and no
\* reported total.
C10_RemoveAbsentIsNoOp ==
  CanCall =>
    \A add \in AddLists, remove \in RemoveLists, h \in CallHeights :
      LET c1  == AddLoop(Ctx(store, store.TOTAL, << >>, "Ok"), add, 1, h)
          eff == Effective(remove, 1, LiveKeys(c1.s))
          r   == update_members(store, h, store.ADMIN, add, remove, build)
          r0  == update_members(store, h, store.ADMIN, add, eff, build)
      IN  (/\ store.ADMIN # NoneStr
           /\ c1.res = "Ok"
           /\ \A i \in 1..Len(remove) : remove[i] \in Valid
           /\ eff # remove)
          => /\ r = r0
             /\ (add = << >> /\ eff = << >>) =>
                  /\ r.res = "Ok"
                  /\ r.diffs = << >>
                  /\ r.s.MEMBERS = store.MEMBERS
                  /\ r.s.MEMBERS_LOG = store.MEMBERS_LOG
                  /\ r.s.TOTAL = store.TOTAL
                  /\ \A v \in QueryHeights :
                       query_total_weight(r.s, v) = query_total_weight(store, v)

\* a state with a live member and an address without weight, where the
\* admin's removal of that address succeeds with an empty diff
C10_Witness ==
  /\ CanCall
  /\ LiveKeys(store) # {}
  /\ \E k \in Valid :
       /\ store.MEMBERS[k] = None
       /\ LET r == update_members(store, height, store.ADMIN, << >>, << k >>,
                                  build)
          IN  r.res = "Ok" /\ r.diffs = << >>

\* the weight an address holds when the i-th element of the add list is
\* reached: that of the latest earlier element for the same address, else
\* the stored one
HeldBeforeAdd(s, add, i) ==
  LET js == { j \in 1..(i - 1) : add[j].addr = add[i].addr }
  IN  IF js = {} THEN s.MEMBERS[add[i].addr] ELSE add[Max(js)].weight

\* the weight an address holds once the whole add list is applied
HeldAfterAdds(s, add, k) ==
  LET js == { j \in 1..Len(add) : add[j].addr = k }
  IN  IF js = {} THEN s.MEMBERS[k] ELSE add[Max(js)].weight

AddEntries(s, add) ==
  [ i \in 1..Len(add) |->
      [ key |-> add[i].addr, old |-> HeldBeforeAdd(s, add, i),
        new |-> add[i].weight ] ]

RemoveEntries(s, add, remove) ==
  LET live == { k \in Valid : HeldAfterAdds(s, add, k) # None }
      eff  == Effective(remove, 1, live)
  IN  [ i \in 1..Len(eff) |->
          [ key |-> eff[i], old |-> HeldAfterAdds(s, add, eff[i]),
            new |-> None ] ]

Notifies(msgs, hooks, diffs) ==
  /\ Len(msgs) = Len(hooks)
  /\ \A i \in 1..Len(hooks) :
       msgs[i].contract_addr = hooks[i] /\ msgs[i].diffs = diffs

\* C12: a successful execute_update_members produces exactly one message
\* per registered hook, in registration order, each with the complete diff
\* of the call (also an empty one), and none when no hook is registered; a
\* failed one produces none.  Stated of the latest message delivered and,
\* for the registries of two hooks, which take two messages to build, of
\* every update that can follow.
C12_OneMessagePerHook ==
  /\ last.op = "update_members" =>
        IF last.res = "Ok" THEN Notifies(last.msgs, store.HOOKS, last.diffs)
        ELSE last.msgs = << >>
  /\ (phase = "live" /\ Len(store.HOOKS) >= 2) =>
        \A sender \in Valid, h \in CallHeights :
        \A add \in UpdateAddLists(sender), remove \in UpdateRemoveLists(sender) :
          LET r == execute_update_members(store, h, sender, add, remove, build)
          IN  IF r.res = "Ok" THEN Notifies(r.msgs, store.HOOKS, r.diffs)
              ELSE r.msgs = << >>

\* scenario 5: with one hook registered, an update whose diff has two
\* entries has produced one message that carries both
C12_Witness ==
  /\ last.op = "update_members" /\ last.res = "Ok"
  /\ Len(store.HOOKS) = 1
  /\ Len(last.diffs) = 2
  /\ Len(last.msgs) = 1
  /\ last.msgs[1].diffs = last.diffs

\* two hooks are registered, and an update of the admin addresses both in
\* the order of their registration
C12_TwoHooks ==
  /\ phase = "live" /\ Len(store.HOOKS) = 2
  /\ \E add \in AddLists :
       LET r == execute_update_members(store, height, store.ADMIN, add, << >>,
                                       build)
       IN  /\ r.res = "Ok" /\ r.diffs # << >>
           /\ r.msgs = << [contract_addr |-> store.HOOKS[1], diffs |-> r.diffs],
                          [contract_addr |-> store.HOOKS[2], diffs |-> r.diffs] >>

NoDuplicate(q) == \A i, j \in 1..Len(q) : q[i] = q[j] => i = j

C13_RemoveAbsent ==
  /\ last.op = "remove_hook" /\ last.res = "HookNotRegistered"
  /\ last.sender = store.ADMIN
  /\ Len(store.HOOKS) = 1 /\ store.HOOKS[1] # last.addr

\* C14: query_list_members(start_after, limit) returns exactly the live
\* members with an address strictly above start_after, in ascending address
\* order, with their current weights (and identities), cut to the first
\* min(limit, 30) of them, limit being 10 when it is not given.
C14_ListIsPageOfLiveMembers ==
  (last.op = "list_members" /\ last.addr # INVALID) =>
    LET Q   == { k \in DOMAIN store.MEMBERS :
                   /\ store.MEMBERS[k] # None
                   /\ last.addr = NoneStr \/ AddrRank(k) > AddrRank(last.addr) }
        lim == IF last.limit = None THEN 10
               ELSE IF last.limit > 30 THEN 30 ELSE last.limit
        n   == IF Cardinality(Q) < lim THEN Cardinality(Q) ELSE lim
        m   == last.members
    IN  /\ last.res = "Ok"
        /\ Len(m) = n
        /\ \A i \in 1..Len(m) :
             /\ m[i].addr \in Q
             /\ m[i].weight = store.MEMBERS[m[i].addr]
             /\ m[i].identity = store.IDS[m[i].addr]
        /\ \A i, j \in 1..Len(m) :
             i < j => AddrRank(m[i].addr) < AddrRank(m[j].addr)
        /\ \A k \in Q :
             (\A i \in 1..Len(m) : m[i].addr # k) =>
               \A i \in 1..Len(m) : AddrRank(m[i].addr) < AddrRank(k)

\* a listing without limit after "a", of a roster that has lost "b" and
\* holds more than 30 members: the page is the 10 members from "m01" on
C14_Witness ==
  /\ last.op = "list_members" /\ last.res = "Ok"
  /\ last.addr = "a" /\ last.limit = None
  /\ store.MEMBERS["b"] = None /\ store.IDS["b"] # NoneStr
  /\ Cardinality({ k \in DOMAIN store.MEMBERS : store.MEMBERS[k] # None }) > 30
  /\ Len(last.members) = 10
  /\ last.members[1].addr = "m01"

\* a listing with limit 40 of such a roster is cut to 30 members
C14_CutToMax ==
  /\ last.op = "list_members" /\ last.res = "Ok"
  /\ last.limit = 40
  /\ Len(last.members) = 30

\* the second half of C15 alone: no create or update_members ends in the
\* abort of an unchecked `+`, and none that succeeds has summed weights
\* beyond the u64 range
C15_NoWrapAccepted ==
  last.op \in {"instantiate", "update_members"} =>
    /\ last.res # "Panic"
    /\ last.res = "Ok" =>
         LiveSum(last.post) <= U64_MAX /\ last.post.TOTAL <= U64_MAX

\* C15: a create or update_members in which a sum of weights would leave
\* the u64 range fails with an overflow error and stores nothing (the
\* storage is as it was before the call); no sum wraps around and is then
\* accepted.
C15_OverflowFailsAndStoresNothing ==
  /\ C15_NoWrapAccepted
  /\ (last.op \in {"instantiate", "update_members"} /\ last.res = "Overflow")
       => last.post = store

RECURSIVE MemberSumAt(_, _, _)
MemberSumAt(s, K, v) ==
  IF K = {} THEN 0
  ELSE LET k == CHOOSE x \in K : TRUE
       IN  unwrap_or_default(query_member(s, k, v).weight)
             + MemberSumAt(s, K \ {k}, v)

\* C16: the history of the total follows that of the members: after any
\* successful create and update_members calls, query_total_weight(at_height
\* = v) is, for every version v, the sum over all addresses of the weight
\* that query_member(addr, at_height = v) reports (absent counting 0).
C16_TotalHistoryIsMemberSum ==
  phase = "live" =>
    \A v \in QueryHeights :
      query_total_weight(store, v) = MemberSumAt(store, Valid, v)

\* every total written was the sum of the weights written last at or below
\* its height
TotalsWereSums(s) ==
  \A h \in Heights :
    s.WRITTEN_TOTAL[h] # NoEntry =>
      LET held(k) == unwrap_or_default(LatestWrite(s, k, 1..h))
      IN  s.WRITTEN_TOTAL[h] = held("a") + held("b")

\* C16 for the histories in which no total was written off the sum, which
\* are those that the double count of create (C1) has not touched
C16_HoldsWhereTotalsWereSums ==
  (phase = "live" /\ TotalsWereSums(store)) =>
    \A v \in QueryHeights :
      query_total_weight(store, v) = MemberSumAt(store, Valid, v)

\* the identity an address has once the add list is applied: that of the
\* last element for it, else the stored one
IdentityAfter(s, add, k) ==
  LET js == { j \in 1..Len(add) : add[j].addr = k }
  IN  IF js = {} THEN s.IDS[k] ELSE add[Max(js)].identity

\* C17: the identity is kept latest-only and removal does not touch it:
\* after a successful update_members every address has the identity of its
\* last add in the call, else the one it had, removed or not; query_member
\* reports no identity when it finds no weight, and with a weight found at
\* any version it reports that latest identity.
C17_IdentityIsLatestOnly ==
  CanCall =>
    \A add \in AddLists, remove \in RemoveLists, h \in CallHeights :
      LET r == update_members(store, h, store.ADMIN, add, remove, build)
      IN  r.res = "Ok" =>
            \A k \in Valid :
              /\ r.s.IDS[k] = IdentityAfter(store, add, k)
              /\ \A v \in QueryHeights \cup {None} :
                   LET q == query_member(r.s, k, v)
                   IN  q.identity = IF q.weight = None THEN NoneStr
                                    ELSE IdentityAfter(store, add, k)

\* a member that held weight 1 (saved with identity "i1") was given another
\* weight with identity "i2" and removed in one update: it is absent and
\* reported without identity now, its record still holds "i2", and the
\* query at the height of the update finds weight 1 with identity "i2"
C17_Witness ==
  /\ last.op = "update_members" /\ last.res = "Ok"
  /\ \E k \in Valid :
       /\ Len(last.diffs) = 2
       /\ last.diffs[1].key = k /\ last.diffs[2].key = k
       /\ store.MEMBERS[k] = None /\ store.IDS[k] = "i2"
       /\ query_member(store, k, None) = [weight |-> None, identity |-> NoneStr]
       /\ query_member(store, k, height) = [weight |-> 1, identity |-> "i2"]

\* C18: in every state reached by successful create and update_members
\* calls every address with a current weight has an identity record, and
\* the listing of the members, which unwraps the identity, does not panic.
C18_LiveMembersHaveIdentity ==
  phase = "live" =>
    /\ \A k \in Valid : store.MEMBERS[k] # None => store.IDS[k] # NoneStr
    /\ \A start_after \in Valid \cup {NoneStr}, limit \in {None, 1} :
         query_list_members(store, start_after, limit).res = "Ok"

\* after an update both addresses are members, one from create and one
\* added since, and the listing returns both with their identities
C18_Witness ==
  /\ last.op = "update_members" /\ last.res = "Ok"
  /\ last.diffs # << >>
  /\ \A k \in Valid : store.MEMBERS[k] # None
  /\ LET r == query_list_members(store, NoneStr, None)
     IN  /\ r.res = "Ok" /\ Len(r.members) = 2
         /\ \A i \in 1..2 : r.members[i].identity = store.IDS[r.members[i].addr]

\* C19: within one update_members the operations are applied one after the
\* other, each seeing the earlier ones.  With an address twice in the add
\* list, the second diff entry has the weight of the first add as its old
\* weight and the weight of the last add is the one stored; with an address
\* in the add and in the remove list, the remove finds the weight just
\* added, the diff has both entries, and after the call the address is
\* absent and counts 0 in the total.
C19_AppliedInSequence ==
  CanCall =>
    \A m1 \in MemberInputs, m2 \in MemberInputs, h \in CallHeights :
      LET k    == m1.addr
          held == unwrap_or_default(store.MEMBERS[k])
          twice    == update_members(store, h, store.ADMIN, << m1, m2 >>,
                                     << >>, build)
          addrem   == update_members(store, h, store.ADMIN, << m1 >>,
                                     << k >>, build)
      IN  /\ (twice.res = "Ok" /\ m2.addr = k) =>
               /\ Len(twice.diffs) = 2
               /\ twice.diffs[1] = [key |-> k, old |-> store.MEMBERS[k],
                                    new |-> m1.weight]
               /\ twice.diffs[2] = [key |-> k, old |-> m1.weight,
                                    new |-> m2.weight]
               /\ query_member(twice.s, k, None).weight = m2.weight
               /\ twice.s.TOTAL = store.TOTAL - held + m2.weight
          /\ addrem.res = "Ok" =>
               /\ addrem.diffs =
                    << [key |-> k, old |-> store.MEMBERS[k], new |-> m1.weight],
                       [key |-> k, old |-> m1.weight, new |-> None] >>
               /\ query_member(addrem.s, k, None).weight = None
               /\ addrem.s.TOTAL = store.TOTAL - held

\* an update has added a new member and removed it again: the diff has the
\* add and the remove of the weight just added, and the address is absent
C19_Witness ==
  /\ last.op = "update_members" /\ last.res = "Ok"
  /\ Len(last.diffs) = 2
  /\ last.diffs[1].key = last.diffs[2].key
  /\ last.diffs[1].old = None
  /\ last.diffs[2].old = last.diffs[1].new /\ last.diffs[2].new = None
  /\ store.MEMBERS[last.diffs[1].key] = None
  /\ store.WRITTEN_TOTAL[height] = store.TOTAL

\* an update has added the same address twice: the second entry's old
\* weight is the first one's new weight, and the last weight is stored
C19_AddedTwice ==
  /\ last.op = "update_members" /\ last.res = "Ok"
  /\ Len(last.diffs) = 2
  /\ last.diffs[1].key = last.diffs[2].key
  /\ last.diffs[1].new # last.diffs[2].new
  /\ last.diffs[2].old = last.diffs[1].new
  /\ store.MEMBERS[last.diffs[1].key] = last.diffs[2].new

\* the addresses that an update names in its lists
Named(add, remove) ==
  { add[i].addr : i \in 1..Len(add) } \cup { remove[i] : i \in 1..Len(remove) }

\* C20: a successful update_members changes the current weight and the
\* identity of no address but those named in its lists: for every other
\* address query_member, current and at every version, returns what it
\* returned before the call; the admin, the hooks and the two bounds are
\* unchanged.
C20_OnlyNamedAddressesChange ==
  CanCall =>
    \A add \in AddLists, remove \in RemoveLists, h \in CallHeights :
      LET r == update_members(store, h, store.ADMIN, add, remove, build)
      IN  r.res = "Ok" =>
            /\ \A k \in Valid \ Named(add, remove) :
                 /\ r.s.MEMBERS[k] = store.MEMBERS[k]
                 /\ r.s.IDS[k] = store.IDS[k]
                 /\ \A v \in QueryHeights \cup {None} :
                      query_member(r.s, k, v) = query_member(store, k, v)
            /\ r.s.ADMIN = store.ADMIN
            /\ r.s.HOOKS = store.HOOKS
            /\ r.s.MIN_WEIGHT = store.MIN_WEIGHT
            /\ r.s.MAX_WEIGHT = store.MAX_WEIGHT

\* an update at a later height has changed one address while the other, a
\* member since create, has no write at that height and answers as before
C20_Witness ==
  /\ last.op = "update_members" /\ last.res = "Ok"
  /\ height > 1
  /\ last.diffs # << >>
  /\ \E k \in Valid :
       /\ \A i \in 1..Len(last.diffs) : last.diffs[i].key # k
       /\ store.MEMBERS[k] # None
       /\ store.WRITTEN[k][height] = NoEntry
       /\ \A v \in QueryHeights : v > 1 =>
            query_member(store, k, v) = query_member(store, k, None)

=============================================================================
